---------------------------- MODULE Spec2Model ----------------------------
(***************************************************************************)
(* Model of the EmprendeVentaPos serverless functions and offline cache.   *)
(*                                                                         *)
(*   create-seller.js        seller-creation handler                       *)
(*   manage-seller.js 15-108 seller-management handler (GET/PUT/DELETE)    *)
(*   manage-seller.js 109-164 insight-generation handler                   *)
(*   manage-seller.js 166-187 offline cache script (service worker)        *)
(*                                                                         *)
(* Every handler is cut at its awaits: one action runs the code from one   *)
(* await to the next, together with the answer the external service gives  *)
(* to the outbound call issued there.  A rejected fetch is modelled as a   *)
(* request that never reached the service (no effect on its state).        *)
(***************************************************************************)
EXTENDS Integers, Sequences, FiniteSets, TLC

VARIABLES
    route,      \* the function (or script) the modelled events are addressed to
    accounts,   \* auth service: identifier -> Account
    profiles,   \* row-store: identifier -> role of the Profile record
    cs,         \* seller-creation invocations
    ms,         \* the seller-management invocation
    ins,        \* the insight-generation invocation
    caches,     \* the browser's CacheStorage
    sw          \* the offline cache script: lifecycle phase and answered fetches

vars == <<route, accounts, profiles, cs, ms, ins, caches, sw>>

(***************************************************************************)
(* Bounds of the model.                                                    *)
(***************************************************************************)
NumInv == 2          \* concurrent / repeated seller-creation invocations
MaxId  == 2          \* identifiers the auth service can hand out

Inv == 1..NumInv
Ids == 1..MaxId

(***************************************************************************)
(* JavaScript values.                                                      *)
(***************************************************************************)
Undef == "undefined"                 \* undefined / null / absent property
NoId  == 0                           \* `null` user id (create-seller.js:57)

\* JS truthiness of the strings the handlers test with `!x`
Falsy(v) == v = Undef \/ v = ""

Emails    == {"a@b.com", "c@d.com"}   \* emails of the Accounts the service may hold
ReqEmails == {"a@b.com"}              \* the email the modelled requests ask for
Passwords == {"x12345"}
Details   == {"upstream detail"}     \* raw text of an upstream error body

CS_Methods  == {"POST", "GET"}
MS_Methods  == {"GET", "PUT", "PATCH", "DELETE", "POST"}
INS_Methods == {"OPTIONS", "POST", "GET"}

FailStatuses == {422, 500}      \* non-success upstream statuses
StatusOk(s)  == s >= 200 /\ s <= 299 \* Response.ok

\* Messages of the exceptions the runtime raises
SyntaxErr == "Unexpected token in JSON"
TypeErr   == "Cannot destructure property of null"
FetchErr  == "fetch failed"
IterErr   == "sellers is not iterable"

(***************************************************************************)
(* External backend-as-a-service state.                                    *)
(*   accounts[id]  the Account with that identifier, or NoAccount          *)
(*   profiles[id]  the role of the Profile record, or "none"               *)
(***************************************************************************)
NoAccount == [email |-> Undef, password |-> Undef]
Roles     == {"buyer", "seller"}

AccountsOf(acc, email) == {id \in Ids : acc[id].email = email}
FreeIds(acc)           == {id \in Ids : acc[id] = NoAccount}
Min(S)                 == CHOOSE x \in S : \A y \in S : x <= y


(***************************************************************************)
(* The auth service and the row-store, as the handlers see them.  Each     *)
(* operator gives the set of answers the service may give to one call,     *)
(* with the state it leaves behind.                                        *)
(***************************************************************************)

\* POST /auth/v1/admin/users.  An existing email is refused with 422; a new
\* one gets a fresh identifier, and the project's trigger may add a Profile
\* record with the default role in the same transaction.  The body of a
\* success is the user object ({id}) or wraps it ({user: {id}}); it may also
\* fail to parse.
AuthCreate(acc, prof, email, password) ==
    LET base == [acc |-> acc, prof |-> prof, rejected |-> FALSE, parsable |-> TRUE,
                 status |-> 0, user_id |-> NoId, id |-> NoId, newId |-> NoId]
        n    == Min(FreeIds(acc))
        acc2 == [acc EXCEPT ![n] = [email |-> email, password |-> password]]
    IN  {[base EXCEPT !.rejected = TRUE]}
        \cup {[base EXCEPT !.status = s] : s \in FailStatuses}
        \cup (IF AccountsOf(acc, email) = {} /\ FreeIds(acc) # {}
              THEN {[base EXCEPT !.acc = acc2, !.prof = p, !.status = 200,
                                 !.newId = n, !.parsable = j[1],
                                 !.id = j[2], !.user_id = j[3]] :
                       p \in {prof, [prof EXCEPT ![n] = "buyer"]},
                       j \in {<<TRUE, n, NoId>>, <<TRUE, NoId, n>>, <<FALSE, NoId, NoId>>}}
              ELSE {})

\* GET /auth/v1/admin/users?email=...  The answer is an array of the Accounts
\* with that email, an object with a `user`, or an error object.  The handler
\* never reads the status of this call, so one failure status stands for all.
LookupFailStatuses == {500}

AuthLookup(acc, email) ==
    LET base  == [rejected |-> FALSE, parsable |-> TRUE, status |-> 200,
                  first_id |-> NoId, user_id |-> NoId]
        found == AccountsOf(acc, email)
    IN  {[base EXCEPT !.rejected = TRUE, !.status = 0]}
        \cup {[base EXCEPT !.parsable = FALSE]}
        \cup {[base EXCEPT !.status = s] : s \in LookupFailStatuses}
        \cup (IF found = {} THEN {base}
              ELSE {[base EXCEPT !.first_id = Min(found)],
                    [base EXCEPT !.user_id = Min(found)]})

\* POST /rest/v1/profiles with Prefer: resolution=merge-duplicates.  The row
\* is keyed by `id`, which references an Account.
ProfilesUpsert(acc, prof, row) ==
    LET base == [prof |-> prof, rejected |-> FALSE, status |-> 0, text |-> Undef]
    IN  {[base EXCEPT !.rejected = TRUE]}
        \cup {[base EXCEPT !.status = s, !.text = d] : s \in FailStatuses, d \in Details}
        \cup (IF row.id \in Ids /\ acc[row.id] # NoAccount
              THEN {[base EXCEPT !.status = 201, !.prof = [prof EXCEPT ![row.id] = row.role]]}
              ELSE {})

(***************************************************************************)
(* Seller-creation handler (create-seller.js).                             *)
(***************************************************************************)
Resp(statusCode, error, message, detail, userId) ==
    [statusCode |-> statusCode, error |-> error, message |-> message,
     detail |-> detail, userId |-> userId]

NoResp == Resp(0, Undef, Undef, Undef, NoId)

\* event.body as the handler receives it
Bodies ==
    {[kind |-> k, email |-> Undef, password |-> Undef] : k \in {"none", "malformed", "null"}}
    \cup {[kind |-> "object", email |-> e, password |-> p] :
             e \in {Undef, ""} \cup ReqEmails, p \in {Undef, ""} \cup Passwords}

\* const { email, password } = JSON.parse(event.body || '{}')
ParseBody(body) ==
    CASE body.kind = "malformed" -> [threw |-> SyntaxErr, email |-> Undef, password |-> Undef]
      [] body.kind = "null"      -> [threw |-> TypeErr, email |-> Undef, password |-> Undef]
      [] OTHER                   -> [threw |-> Undef, email |-> body.email,
                                     password |-> body.password]

\* the check with && in place of ||
MissingFields_And(email, password) == Falsy(email) /\ Falsy(password)

\* if (!email || !password)
MissingFields(email, password) == Falsy(email) \/ Falsy(password)

\* createJson?.user?.id || createJson?.id || null, with createJson = {} when
\* the body does not parse
PickUserId(res) ==
    IF ~res.parsable THEN NoId
    ELSE IF res.user_id # NoId THEN res.user_id
    ELSE res.id

\* the decision without the `|| !userId` half
NeedsLookup_ConflictOnly(status, userId) == status = 422

\* if (createRes.status === 422 || !userId)
NeedsLookup(status, userId) == status = 422 \/ userId = NoId

\* lookupJson?.[0]?.id || lookupJson?.user?.id || null
PickLookupId(res) == IF res.first_id # NoId THEN res.first_id ELSE res.user_id

\* the row written with the default role
UpsertRow_DefaultRole(userId) == [id |-> userId, role |-> "buyer"]

\* body: JSON.stringify({ id: userId, role: 'seller' })
UpsertRow(userId) == [id |-> userId, role |-> "seller"]

\* the catch at the handler boundary
CatchResp(message) == Resp(500, message, Undef, Undef, NoId)

\* the failure relayed with the upstream status, as seller-management does
UpsertFailResp_Relay(status, errText) ==
    Resp(status, "Fallo al asignar rol seller", Undef, errText, NoId)

\* if (!upsertRes.ok) return { statusCode: 500, ... detail: errText }
UpsertFailResp(status, errText) ==
    Resp(500, "Fallo al asignar rol seller", Undef, errText, NoId)

IdleCS ==
    [pc |-> "idle", method |-> Undef, body |-> CHOOSE b \in Bodies : b.kind = "none",
     cfg |-> FALSE, email |-> Undef, password |-> Undef, createStatus |-> 0,
     createUid |-> NoId, userId |-> NoId, newId |-> NoId, calls |-> <<>>, thrown |-> Undef,
     wrote |-> FALSE, resp |-> NoResp]

\* one outbound call: what was asked, of which email or identifier, and the
\* status that came back (0 when the fetch rejected)
Call(op, email, id, status) == [op |-> op, email |-> email, id |-> id, status |-> status]

Done(r, resp)          == [r EXCEPT !.pc = "done", !.resp = resp]
Thrown(r, message)     == [r EXCEPT !.pc = "done", !.thrown = message,
                                    !.resp = CatchResp(message)]

\* lines 23-38: method check, body parsing, required fields, configuration.
\* event.body is read only once the method is POST, and process.env only
\* once both fields are present.
CS_Begin(r, method, body, cfg) ==
    LET r1 == [r EXCEPT !.method = method]
        r2 == [r1 EXCEPT !.body = body]
        p  == ParseBody(body)
    IN  IF method # "POST"
        THEN Done(r1, Resp(405, "Method not allowed", Undef, Undef, NoId))
        ELSE IF p.threw # Undef THEN Thrown(r2, p.threw)
        ELSE IF MissingFields(p.email, p.password)
        THEN Done(r2, Resp(400, "Email y contrasena son obligatorios", Undef, Undef, NoId))
        ELSE IF ~cfg
        THEN Done(r2, Resp(500, "Variables de entorno faltantes", Undef, Undef, NoId))
        ELSE [r2 EXCEPT !.pc = "create", !.cfg = cfg, !.email = p.email,
                        !.password = p.password]

CS_Invoke(i) ==
    /\ route = "create-seller"
    /\ cs[i].pc = "idle"
    /\ \E method \in CS_Methods, body \in Bodies, cfg \in BOOLEAN :
          cs' = [cs EXCEPT ![i] = CS_Begin(cs[i], method, body, cfg)]
    /\ UNCHANGED <<route, accounts, profiles, ms, ins, caches, sw>>

\* lines 42-63: the create call, its body, and the decision to look up
CS_AfterCreate(r, res) ==
    LET r1  == [r EXCEPT !.calls = Append(@, Call("create", r.email, NoId, res.status)),
                         !.newId = res.newId]
        uid == PickUserId(res)
    IN  IF res.rejected THEN Thrown(r1, FetchErr)
        ELSE [r1 EXCEPT !.createStatus = res.status, !.createUid = uid, !.userId = uid,
                        !.pc = IF NeedsLookup(res.status, uid) THEN "lookup" ELSE "upsert"]

CS_Create(i) ==
    /\ route = "create-seller"
    /\ cs[i].pc = "create"
    /\ \E res \in AuthCreate(accounts, profiles, cs[i].email, cs[i].password) :
          /\ accounts' = res.acc
          /\ profiles' = res.prof
          /\ cs' = [cs EXCEPT ![i] = CS_AfterCreate(cs[i], res)]
    /\ UNCHANGED <<route, ms, ins, caches, sw>>

\* lines 64-76: the lookup by email
CS_AfterLookup(r, res) ==
    LET r1  == [r EXCEPT !.calls = Append(@, Call("lookup", r.email, NoId, res.status))]
        uid == PickLookupId(res)
    IN  IF res.rejected THEN Thrown(r1, FetchErr)
        ELSE IF ~res.parsable THEN Thrown(r1, SyntaxErr)
        ELSE IF uid = NoId
        THEN Done([r1 EXCEPT !.userId = uid],
                  Resp(422, "No se pudo obtener ID de usuario", Undef, Undef, NoId))
        ELSE [r1 EXCEPT !.userId = uid, !.pc = "upsert"]

CS_Lookup(i) ==
    /\ route = "create-seller"
    /\ cs[i].pc = "lookup"
    /\ \E res \in AuthLookup(accounts, cs[i].email) :
          cs' = [cs EXCEPT ![i] = CS_AfterLookup(cs[i], res)]
    /\ UNCHANGED <<route, accounts, profiles, ms, ins, caches, sw>>

\* lines 84-99: the upsert of the Profile record and the final response
CS_AfterUpsert(r, res) ==
    LET r1 == [r EXCEPT !.calls = Append(@, Call("upsert", Undef, UpsertRow(r.userId).id, res.status))]
    IN  IF res.rejected THEN Thrown(r1, FetchErr)
        ELSE IF ~StatusOk(res.status) THEN Done(r1, UpsertFailResp(res.status, res.text))
        ELSE Done([r1 EXCEPT !.wrote = TRUE],
                  Resp(200, Undef, "Vendedor creado", Undef, r.userId))

CS_Upsert(i) ==
    /\ route = "create-seller"
    /\ cs[i].pc = "upsert"
    /\ \E res \in ProfilesUpsert(accounts, profiles, UpsertRow(cs[i].userId)) :
          /\ profiles' = res.prof
          /\ cs' = [cs EXCEPT ![i] = CS_AfterUpsert(cs[i], res)]
    /\ UNCHANGED <<route, accounts, ms, ins, caches, sw>>


(***************************************************************************)
(* Seller-management handler (manage-seller.js 15-108).  It has no         *)
(* try/catch: an exception raised in it leaves the invocation without a    *)
(* response (pc = "crashed").                                              *)
(***************************************************************************)
NewPasswords == {"y67890"}

\* an `id` as a request carries it: absent, the empty string, or a value
ReqIds ==
    {[given |-> g, id |-> NoId] : g \in {"absent", "empty"}}
    \cup {[given |-> "value", id |-> x] : x \in Ids}

NoReqId == [given |-> "absent", id |-> NoId]

\* the check as `id === null`: an empty string passes
FalsyId_NullOnly(q) == q.given = "absent"

\* !id
FalsyId(q) == q.given # "value"

MS_Bodies ==
    {[kind |-> k, id |-> NoReqId, password |-> Undef] : k \in {"none", "malformed", "null"}}
    \cup {[kind |-> "object", id |-> q, password |-> p] :
             q \in ReqIds, p \in {Undef, ""} \cup NewPasswords}

\* try { body = JSON.parse(event.body); } catch { body = {}; }
\* const { id, password } = body;     (outside the try)
MS_ParseBody(body) ==
    CASE body.kind = "null" -> [threw |-> TypeErr, id |-> NoReqId, password |-> Undef]
      [] body.kind \in {"none", "malformed"} ->
             [threw |-> Undef, id |-> NoReqId, password |-> Undef]
      [] OTHER -> [threw |-> Undef, id |-> body.id, password |-> body.password]

MResp(statusCode, message, detail, list) ==
    [statusCode |-> statusCode, message |-> message, detail |-> detail, list |-> list]

NoMResp == MResp(0, Undef, Undef, <<>>)

\* the failure answered with a fixed 500
MS_FailResp_Fixed500(status, message, data) == MResp(500, message, data, <<>>)

\* return { statusCode: res.status, body: { message, detail: res.data } }
MS_FailResp(status, message, data) == MResp(status, message, data, <<>>)

\* if (userRes.ok && userRes.data) result.push({ id: uid, email: userRes.data.email })
MS_Push(result, uid, res) ==
    IF StatusOk(res.status) /\ res.data # Undef
    THEN Append(result, [id |-> uid, email |-> res.data])
    ELSE result

IdleMS ==
    [pc |-> "idle", method |-> Undef, cfg |-> FALSE,
     body |-> CHOOSE b \in MS_Bodies : b.kind = "none", query |-> NoReqId,
     id |-> NoId, password |-> Undef,
     sellers |-> <<>>, idx |-> 1, result |-> <<>>, fetched |-> <<>>,
     calls |-> <<>>, thrown |-> Undef, resp |-> NoMResp]

MS_Done(r, resp)      == [r EXCEPT !.pc = "done", !.resp = resp]
MS_Crash(r, message)  == [r EXCEPT !.pc = "crashed", !.thrown = message]

\* requestSupabase: every answer the service may give to a GET of the
\* profiles with role seller: the identifiers in any order, a payload that
\* is no array, an error, or a rejected fetch
SomeSeq(S) == {q \in UNION {[1..n -> S] : n \in 0..Cardinality(S)} :
                 /\ \A a, b \in DOMAIN q : a # b => q[a] # q[b]
                 /\ {q[a] : a \in DOMAIN q} = S}

ProfilesQuery(prof) ==
    LET base == [rejected |-> FALSE, status |-> 200, rows |-> <<>>, isArray |-> TRUE,
                 data |-> Undef]
    IN  {[base EXCEPT !.rejected = TRUE, !.status = 0]}
        \cup {[base EXCEPT !.status = s, !.data = d, !.isArray = FALSE] :
                 s \in FailStatuses, d \in Details}
        \cup {[base EXCEPT !.isArray = FALSE]}
        \cup {[base EXCEPT !.rows = q] : q \in SomeSeq({x \in Ids : prof[x] = "seller"})}

\* GET /auth/v1/admin/users/{uid}: the Account's user object, an error, or a
\* rejected fetch
AuthGetUser(acc, uid) ==
    LET base == [rejected |-> FALSE, status |-> 0, data |-> Undef]
    IN  {[base EXCEPT !.rejected = TRUE]}
        \cup {[base EXCEPT !.status = s] : s \in FailStatuses}
        \cup (IF uid \in Ids /\ acc[uid] # NoAccount
              THEN {[base EXCEPT !.status = 200, !.data = acc[uid].email]}
              ELSE {})

\* PATCH /auth/v1/admin/users/{id} with { password }
AuthUpdateUser(acc, id, password) ==
    LET base == [acc |-> acc, rejected |-> FALSE, status |-> 0, data |-> Undef]
    IN  {[base EXCEPT !.rejected = TRUE]}
        \cup {[base EXCEPT !.status = s, !.data = d] : s \in FailStatuses, d \in Details}
        \cup (IF id \in Ids /\ acc[id] # NoAccount
              THEN {[base EXCEPT !.status = 200,
                                 !.acc = [acc EXCEPT ![id].password = password]]}
              ELSE {})

\* DELETE /auth/v1/admin/users/{id}; the Profile record goes with the
\* Account (ON DELETE CASCADE)
AuthDeleteUser(acc, prof, id) ==
    LET base == [acc |-> acc, prof |-> prof, rejected |-> FALSE, status |-> 0,
                 data |-> Undef]
    IN  {[base EXCEPT !.rejected = TRUE]}
        \cup {[base EXCEPT !.status = s, !.data = d] : s \in FailStatuses, d \in Details}
        \cup (IF id \in Ids /\ acc[id] # NoAccount
              THEN {[base EXCEPT !.status = 200,
                                 !.acc = [acc EXCEPT ![id] = NoAccount],
                                 !.prof = [prof EXCEPT ![id] = "none"]]}
              ELSE {})

\* lines 15-20, 29, 61-71, 86-92, 107: configuration check and dispatch
MS_Begin(r, method, cfg, body, query) ==
    LET r1 == [r EXCEPT !.method = method, !.cfg = cfg, !.body = body, !.query = query]
        p  == MS_ParseBody(body)
    IN  IF ~cfg
        THEN MS_Done(r1, MResp(500, "Faltan variables de entorno SUPABASE_URL o SERVICE_ROLE_KEY",
                               Undef, <<>>))
        ELSE IF method = "GET" THEN [r1 EXCEPT !.pc = "profiles"]
        ELSE IF method \in {"PUT", "PATCH"}
        THEN IF p.threw # Undef THEN MS_Crash(r1, p.threw)
             ELSE IF FalsyId(p.id) \/ Falsy(p.password)
             THEN MS_Done(r1, MResp(400, "id y password son obligatorios", Undef, <<>>))
             ELSE [r1 EXCEPT !.pc = "update", !.id = p.id.id, !.password = p.password]
        ELSE IF method = "DELETE"
        THEN IF FalsyId(query)
             THEN MS_Done(r1, MResp(400, "id es obligatorio para eliminar", Undef, <<>>))
             ELSE [r1 EXCEPT !.pc = "delete", !.id = query.id]
        ELSE MS_Done(r1, MResp(405, "Metodo no permitido", Undef, <<>>))

MS_Invoke ==
    /\ route = "manage-seller"
    /\ ms.pc = "idle"
    /\ \E method \in MS_Methods, cfg \in BOOLEAN, body \in MS_Bodies, query \in ReqIds :
          \* a body matters to PUT/PATCH only and a query string to DELETE only
          /\ method \notin {"PUT", "PATCH"} => body = IdleMS.body
          /\ method # "DELETE" => query = NoReqId
          /\ ms' = MS_Begin(ms, method, cfg, body, query)
    /\ UNCHANGED <<route, accounts, profiles, cs, ins, caches, sw>>

\* line 59: return { statusCode: 200, body: JSON.stringify(result) }
MS_ListDone(r) ==
    IF r.idx > Len(r.sellers) THEN MS_Done(r, MResp(200, Undef, Undef, r.result)) ELSE r

\* lines 31-44: the Profile query
MS_AfterProfiles(r, res) ==
    LET r1 == [r EXCEPT !.calls = Append(@, Call("profiles", Undef, NoId, res.status))]
    IN  IF res.rejected THEN MS_Crash(r1, FetchErr)
        ELSE IF ~StatusOk(res.status)
        THEN MS_Done(r1, MS_FailResp(res.status, "Error obteniendo perfiles", res.data))
        ELSE IF ~res.isArray THEN MS_Crash(r1, IterErr)
        ELSE MS_ListDone([r1 EXCEPT !.pc = "users", !.sellers = res.rows, !.idx = 1])

MS_Profiles ==
    /\ route = "manage-seller"
    /\ ms.pc = "profiles"
    /\ \E res \in ProfilesQuery(profiles) : ms' = MS_AfterProfiles(ms, res)
    /\ UNCHANGED <<route, accounts, profiles, cs, ins, caches, sw>>

\* lines 45-58: one turn of the loop over the sellers
MS_AfterUser(r, res) ==
    LET uid == r.sellers[r.idx]
        r1  == [r EXCEPT !.calls = Append(@, Call("user", Undef, uid, res.status)),
                         !.fetched = Append(@, [id |-> uid, status |-> res.status,
                                                email |-> res.data])]
    IN  IF res.rejected THEN MS_Crash(r1, FetchErr)
        ELSE MS_ListDone([r1 EXCEPT !.result = MS_Push(@, uid, res), !.idx = @ + 1])

MS_User ==
    /\ route = "manage-seller"
    /\ ms.pc = "users"
    /\ \E res \in AuthGetUser(accounts, ms.sellers[ms.idx]) : ms' = MS_AfterUser(ms, res)
    /\ UNCHANGED <<route, accounts, profiles, cs, ins, caches, sw>>

\* lines 72-84: the password update
MS_AfterUpdate(r, res) ==
    LET r1 == [r EXCEPT !.calls = Append(@, Call("update", Undef, r.id, res.status))]
    IN  IF res.rejected THEN MS_Crash(r1, FetchErr)
        ELSE IF ~StatusOk(res.status)
        THEN MS_Done(r1, MS_FailResp(res.status, "Error actualizando contrasena", res.data))
        ELSE MS_Done(r1, MResp(200, "Contrasena actualizada", Undef, <<>>))

MS_Update ==
    /\ route = "manage-seller"
    /\ ms.pc = "update"
    /\ \E res \in AuthUpdateUser(accounts, ms.id, ms.password) :
          /\ accounts' = res.acc
          /\ ms' = MS_AfterUpdate(ms, res)
    /\ UNCHANGED <<route, profiles, cs, ins, caches, sw>>

\* lines 93-105: the Account delete
MS_AfterDelete(r, res) ==
    LET r1 == [r EXCEPT !.calls = Append(@, Call("delete", Undef, r.id, res.status))]
    IN  IF res.rejected THEN MS_Crash(r1, FetchErr)
        ELSE IF ~StatusOk(res.status)
        THEN MS_Done(r1, MS_FailResp(res.status, "Error eliminando usuario", res.data))
        ELSE MS_Done(r1, MResp(200, "Vendedor eliminado", Undef, <<>>))

MS_Delete ==
    /\ route = "manage-seller"
    /\ ms.pc = "delete"
    /\ \E res \in AuthDeleteUser(accounts, profiles, ms.id) :
          /\ accounts' = res.acc
          /\ profiles' = res.prof
          /\ ms' = MS_AfterDelete(ms, res)
    /\ UNCHANGED <<route, cs, ins, caches, sw>>

(***************************************************************************)
(* Insight-generation handler (manage-seller.js 109-164).                  *)
(***************************************************************************)
INS_Bodies ==
    {[kind |-> k, prompt |-> Undef, name |-> Undef, category |-> Undef,
      description |-> Undef, salesSummary |-> Undef] : k \in {"none", "malformed", "null"}}
    \cup [kind : {"object"}, prompt : {Undef, "Resume mis ventas"}, name : {Undef, "Cafe"},
          category : {Undef, "Bebidas"}, description : {Undef, "Molido 250g"},
          salesSummary : {Undef, "3 ventas"}]

\* const body = JSON.parse(event.body || "{}"); const { prompt, ... } = body;
INS_ParseBody(body) ==
    CASE body.kind = "malformed" -> [threw |-> SyntaxErr, fields |-> body]
      [] body.kind = "null"      -> [threw |-> TypeErr, fields |-> body]
      [] OTHER                   -> [threw |-> Undef, fields |-> body]

\* x || d
OrElse(x, d) == IF Falsy(x) THEN d ELSE x

\* lines 129-133: the canned summary
MockAnalysis(b) ==
    <<"Resumen (MOCK) para", OrElse(b.name, "Producto"), OrElse(b.category, "N/D"),
      OrElse(b.description, "Descripcion no provista"),
      "Ventas del dia:", OrElse(b.salesSummary, "N/D"),
      "Sugerencia: Optimiza titulos e imagenes para mejorar conversion.">>

\* lines 141-144: the caller's prompt, else the templated one
UserText(b) ==
    IF ~Falsy(b.prompt) THEN <<b.prompt>>
    ELSE <<"Analiza estas ventas y redacta insights:", OrElse(b.salesSummary, ""),
           "Producto:", OrElse(b.name, ""), "Categoria:", OrElse(b.category, ""),
           "Desc:", OrElse(b.description, "")>>

\* the check as `API_KEY === undefined`: an empty key counts as a key
NoApiKey_UndefinedOnly(key) == key = Undef

\* if (!API_KEY)
NoApiKey(key) == Falsy(key)

ApiKeys == {Undef, "", "AIza-key"}

IResp(statusCode, analysis, mode, error) ==
    [statusCode |-> statusCode, cors |-> TRUE, analysis |-> analysis, mode |-> mode,
     error |-> error]

NoIResp == [statusCode |-> 0, cors |-> FALSE, analysis |-> <<>>, mode |-> Undef,
            error |-> Undef]

\* return { statusCode: resp.status, headers, body: { error: err } }
INS_FailResp(status, err) == IResp(status, <<>>, Undef, err)

\* POST ...:generateContent.  A success carries a first candidate's text or
\* no candidate at all; the body may also fail to parse.
GeminiTexts == {"Las ventas suben."}

Generate(text) ==
    LET base == [rejected |-> FALSE, parsable |-> TRUE, status |-> 0, text |-> Undef,
                 raw |-> Undef]
    IN  {[base EXCEPT !.rejected = TRUE]}
        \cup {[base EXCEPT !.status = s, !.raw = d] : s \in FailStatuses, d \in Details}
        \cup {[base EXCEPT !.status = 200, !.text = t, !.raw = "{candidates}"] :
                 t \in GeminiTexts}
        \cup {[base EXCEPT !.status = 200, !.raw = "{}"]}
        \cup {[base EXCEPT !.status = 200, !.parsable = FALSE]}

IdleINS ==
    [pc |-> "idle", method |-> Undef, body |-> CHOOSE b \in INS_Bodies : b.kind = "none",
     key |-> Undef, calls |-> <<>>, thrown |-> Undef, resp |-> NoIResp]

INS_Done(r, resp)     == [r EXCEPT !.pc = "done", !.resp = resp]
INS_Thrown(r, message) == [r EXCEPT !.pc = "done", !.thrown = message,
                                    !.resp = IResp(500, <<>>, Undef, message)]

\* lines 110-136: preflight, body parsing, the mock branch
INS_Begin(r, method, body, key) ==
    LET r1 == [r EXCEPT !.method = method, !.body = body, !.key = key]
        p  == INS_ParseBody(body)
    IN  IF method = "OPTIONS" THEN INS_Done(r1, IResp(200, <<>>, Undef, Undef))
        ELSE IF p.threw # Undef THEN INS_Thrown(r1, p.threw)
        ELSE IF NoApiKey(key) THEN INS_Done(r1, IResp(200, MockAnalysis(p.fields), "mock", Undef))
        ELSE [r1 EXCEPT !.pc = "generate"]

INS_Invoke ==
    /\ route = "insight"
    /\ ins.pc = "idle"
    /\ \E method \in INS_Methods, body \in INS_Bodies, key \in ApiKeys :
          ins' = INS_Begin(ins, method, body, key)
    /\ UNCHANGED <<route, accounts, profiles, cs, ms, caches, sw>>

\* lines 139-160: the call to the generative-language API
INS_AfterGenerate(r, res) ==
    LET r1 == [r EXCEPT !.calls = Append(@, [op |-> "generate", text |-> UserText(r.body),
                                             status |-> res.status])]
    IN  IF res.rejected THEN INS_Thrown(r1, FetchErr)
        ELSE IF ~StatusOk(res.status) THEN INS_Done(r1, INS_FailResp(res.status, res.raw))
        ELSE IF ~res.parsable THEN INS_Thrown(r1, SyntaxErr)
        ELSE INS_Done(r1, IResp(200, <<OrElse(res.text, res.raw)>>, "gemini", Undef))

INS_Generate ==
    /\ route = "insight"
    /\ ins.pc = "generate"
    /\ \E res \in Generate(UserText(ins.body)) : ins' = INS_AfterGenerate(ins, res)
    /\ UNCHANGED <<route, accounts, profiles, cs, ms, caches, sw>>

(***************************************************************************)
(* Offline cache script (manage-seller.js 166-187).                        *)
(***************************************************************************)
MaxFetch == 2        \* page fetches recorded

CACHE_NAME == "emprende-venta-pos-cache-v-final2"

urlsToCache ==
    <<"./", "./index.html", "./manifest.webmanifest", "./logo.png",
      "./icons/icon-192.png", "./icons/icon-512.png">>

Range(q) == {q[k] : k \in DOMAIN q}

OldCacheNames == {"emprende-venta-pos-cache-v1"}
CacheNames    == {CACHE_NAME} \cup OldCacheNames

\* what the page asks for: the static assets and a function call
PageUrls == Range(urlsToCache) \cup {"/.netlify/functions/manage-seller"}

NoCache    == [open |-> FALSE, urls |-> {}]
NoResponse == [url |-> Undef, source |-> Undef]

\* caches.match(url): the first cached response over every open cache
CachesMatch(c, url) ==
    IF \E n \in CacheNames : c[n].open /\ url \in c[n].urls
    THEN [url |-> url, source |-> "cache"]
    ELSE NoResponse

\* caches.open(CACHE_NAME).then((cache) => cache.addAll(urlsToCache)).catch(()=>{})
\* addAll stores every asset or, when one request fails, none
InstallOutcomes(c) ==
    {c,
     [c EXCEPT ![CACHE_NAME] = [open |-> TRUE, urls |-> c[CACHE_NAME].urls]],
     [c EXCEPT ![CACHE_NAME] = [open |-> TRUE,
                                urls |-> c[CACHE_NAME].urls \cup Range(urlsToCache)]]}

\* keys.map((k) => k !== CACHE_NAME && caches.delete(k))
ActivateCaches(c) == [n \in CacheNames |-> IF n # CACHE_NAME THEN NoCache ELSE c[n]]

\* cached || fetch(req).catch(() => caches.match('./index.html'))
FallbackUrl == "./index.html"

SW_Respond(c, req, netOk) ==
    LET cached == CachesMatch(c, req)
    IN  IF cached # NoResponse
        THEN [req |-> req, network |-> "none", response |-> cached]
        ELSE IF netOk
        THEN [req |-> req, network |-> "ok",
              response |-> [url |-> req, source |-> "network"]]
        ELSE [req |-> req, network |-> "failed", response |-> CachesMatch(c, FallbackUrl)]

SW_Install ==
    /\ route = "sw"
    /\ sw.phase = "parsed"
    /\ caches' \in InstallOutcomes(caches)
    /\ sw' = [sw EXCEPT !.phase = "installed"]
    /\ UNCHANGED <<route, accounts, profiles, cs, ms, ins>>

SW_Activate ==
    /\ route = "sw"
    /\ sw.phase = "installed"
    /\ caches' = ActivateCaches(caches)
    /\ sw' = [sw EXCEPT !.phase = "activated"]
    /\ UNCHANGED <<route, accounts, profiles, cs, ms, ins>>

SW_Fetch ==
    /\ route = "sw"
    /\ sw.phase = "activated"
    /\ Len(sw.log) < MaxFetch
    /\ \E req \in PageUrls, netOk \in BOOLEAN :
          sw' = [sw EXCEPT !.log = Append(@, SW_Respond(caches, req, netOk))]
    /\ UNCHANGED <<route, accounts, profiles, cs, ms, ins, caches>>

(***************************************************************************)
(* States of the external services the handlers can meet: identifiers are  *)
(* handed out lowest first, an email has at most one Account, and a        *)
(* Profile record references an existing Account.                          *)
(***************************************************************************)
AccountStates ==
    {acc \in [Ids -> {NoAccount} \cup [email : Emails, password : Passwords]] :
        /\ \A a, b \in Ids : (a # b /\ acc[a] # NoAccount) => acc[a].email # acc[b].email
        /\ \A a, b \in Ids : (a < b /\ acc[b] # NoAccount) => acc[a] # NoAccount}

ProfileStates(acc) ==
    {prof \in [Ids -> {"none"} \cup Roles] :
        \A a \in Ids : acc[a] = NoAccount => prof[a] = "none"}

InitBackend ==
    /\ accounts \in AccountStates
    /\ profiles \in ProfileStates(accounts)

EmptyBackend ==
    /\ accounts = [x \in Ids |-> NoAccount]
    /\ profiles = [x \in Ids |-> "none"]

\* an earlier version of the script may have left a cache behind
OldCacheStates ==
    {NoCache} \cup {[open |-> TRUE, urls |-> u] : u \in SUBSET {"./index.html", "./logo.png"}}

IdleHandlers ==
    /\ cs = [i \in Inv |-> IdleCS]
    /\ ms = IdleMS
    /\ ins = IdleINS

FreshWorker ==
    /\ caches = [n \in CacheNames |-> NoCache]
    /\ sw = [phase |-> "parsed", log |-> <<>>]

InitCreate ==
    /\ route = "create-seller"
    /\ InitBackend /\ IdleHandlers /\ FreshWorker

InitManage ==
    /\ route = "manage-seller"
    /\ InitBackend /\ IdleHandlers /\ FreshWorker

InitInsight ==
    /\ route = "insight"
    /\ EmptyBackend /\ IdleHandlers /\ FreshWorker

InitCache ==
    /\ route = "sw"
    /\ EmptyBackend /\ IdleHandlers
    /\ caches \in [CacheNames -> OldCacheStates]
    /\ caches[CACHE_NAME] = NoCache
    /\ sw = [phase |-> "parsed", log |-> <<>>]

Init == InitCreate \/ InitManage \/ InitInsight \/ InitCache

NextCreate ==
    \E i \in Inv : CS_Invoke(i) \/ CS_Create(i) \/ CS_Lookup(i) \/ CS_Upsert(i)

NextManage ==
    MS_Invoke \/ MS_Profiles \/ MS_User \/ MS_Update \/ MS_Delete

NextInsight ==
    INS_Invoke \/ INS_Generate

NextCache ==
    SW_Install \/ SW_Activate \/ SW_Fetch

\* The four units share no runtime state and never call each other; a
\* behaviour follows the events addressed to one of them (route).
Next == NextCreate \/ NextManage \/ NextInsight \/ NextCache

SpecCreate  == InitCreate /\ [][NextCreate]_vars
SpecManage  == InitManage /\ [][NextManage]_vars
SpecInsight == InitInsight /\ [][NextInsight]_vars
SpecCache   == InitCache /\ [][NextCache]_vars
Spec        == Init /\ [][Next]_vars


(***************************************************************************)
(* Properties.                                                             *)
(***************************************************************************)
Last(q)      == q[Len(q)]
Ops(q)       == [k \in DOMAIN q |-> q[k].op]
Finished(r)  == r.pc = "done"
Issued(r, op) == \E k \in DOMAIN r.calls : r.calls[k].op = op

\* the request carries no usable email or no usable password
Lacks(body) == body.kind # "object" \/ Falsy(body.email) \/ Falsy(body.password)

\* C1: every seller-creation invocation that returned 200 leaves exactly one
\* Account for its email, and the Profile record with that Account's
\* identifier has role "seller"; the response names that identifier.
C1_OneSellerPerEmail ==
    \A i \in Inv :
        (Finished(cs[i]) /\ cs[i].resp.statusCode = 200) =>
            /\ Cardinality(AccountsOf(accounts, cs[i].email)) = 1
            /\ \A id \in AccountsOf(accounts, cs[i].email) :
                  /\ profiles[id] = "seller"
                  /\ cs[i].resp.userId = id

\* Two invocations for the same email both returned 200: one created the
\* Account, the other found it through the lookup.
C1_Witness ==
    \E i, j \in Inv :
        /\ i # j /\ cs[i].email = cs[j].email
        /\ Finished(cs[i]) /\ cs[i].resp.statusCode = 200 /\ cs[i].newId # NoId
        /\ Finished(cs[j]) /\ cs[j].resp.statusCode = 200 /\ Issued(cs[j], "lookup")

\* A 200 for an Account that existed before, with a Profile record of
\* another role.
C1_WitnessPromoted ==
    \E i \in Inv :
        /\ Finished(cs[i]) /\ cs[i].resp.statusCode = 200
        /\ cs[i].newId = NoId /\ cs[i].createStatus = 422

\* C2 (as stated): every seller-creation invocation whose request lacks
\* email or password returns 400 and issues no outbound call.
C2_Missing400 ==
    \A i \in Inv :
        (Finished(cs[i]) /\ Lacks(cs[i].body)) =>
            /\ cs[i].resp.statusCode = 400
            /\ cs[i].calls = <<>>

\* C2 (amended): an invocation whose request lacks email or password issues
\* no outbound call; it returns 405 when the method is not POST, 500 when the
\* body is malformed JSON or null, and 400 otherwise.
C2_MissingNoCall ==
    \A i \in Inv :
        (Finished(cs[i]) /\ Lacks(cs[i].body)) =>
            /\ cs[i].calls = <<>>
            /\ cs[i].resp.statusCode =
                  IF cs[i].method # "POST" THEN 405
                  ELSE IF cs[i].body.kind \in {"malformed", "null"} THEN 500
                  ELSE 400

\* A POST with an email and an empty password was answered 400.
C2_Witness ==
    \E i \in Inv :
        /\ Finished(cs[i]) /\ cs[i].method = "POST" /\ cs[i].body.kind = "object"
        /\ cs[i].body.email \in ReqEmails /\ cs[i].body.password = ""
        /\ cs[i].resp.statusCode = 400

\* C3 (as stated): a DELETE without an `id` returns 400 and issues no
\* outbound delete call.
C3_DeleteNoId400 ==
    (ms.pc # "idle" /\ ms.method = "DELETE" /\ ms.query.given \in {"absent", "empty"}) =>
        /\ Finished(ms) /\ ms.resp.statusCode = 400
        /\ ~Issued(ms, "delete")

\* C3 (amended): a DELETE without an `id` issues no outbound call; it returns
\* 400 when the backend configuration is present and 500 when it is missing.
C3_DeleteNoIdNoCall ==
    (ms.pc # "idle" /\ ms.method = "DELETE" /\ ms.query.given \in {"absent", "empty"}) =>
        /\ Finished(ms)
        /\ ms.calls = <<>>
        /\ ms.resp.statusCode = IF ms.cfg THEN 400 ELSE 500

\* A configured DELETE with an empty `id` was answered 400.
C3_Witness ==
    /\ Finished(ms) /\ ms.method = "DELETE" /\ ms.cfg
    /\ ms.query.given = "empty" /\ ms.resp.statusCode = 400

\* C4 (as stated): without an API key every request other than the preflight
\* is answered in mode "mock" and no outbound call is issued.
C4_NoKeyMock ==
    (ins.pc # "idle" /\ ins.key \in {Undef, ""} /\ ins.method # "OPTIONS") =>
        /\ Finished(ins)
        /\ ins.resp.mode = "mock"
        /\ ins.calls = <<>>

\* C4 (amended): without an API key no outbound call is issued; a request
\* other than the preflight is answered 200 in mode "mock" unless its body is
\* malformed JSON or null, and then 500 with the exception's message.
C4_NoKeyNoCall ==
    (ins.pc # "idle" /\ ins.key \in {Undef, ""} /\ ins.method # "OPTIONS") =>
        /\ Finished(ins)
        /\ ins.calls = <<>>
        /\ IF ins.body.kind \in {"malformed", "null"}
           THEN /\ ins.resp.statusCode = 500
                /\ ins.resp.error = ins.thrown /\ ins.thrown # Undef
                /\ ins.resp.mode = Undef
           ELSE /\ ins.resp.statusCode = 200
                /\ ins.resp.mode = "mock"
                /\ ins.resp.analysis = MockAnalysis(ins.body)

\* An empty-string key and an object body: the canned summary was returned.
C4_Witness ==
    /\ Finished(ins) /\ ins.key = "" /\ ins.method = "POST"
    /\ ins.body.kind = "object" /\ ins.body.name # Undef
    /\ ins.resp.mode = "mock"

\* the handler ended in failure on a call that came back with a
\* non-success status
FailedOnUpstream(calls, statusCode) ==
    /\ calls # <<>>
    /\ Last(calls).status \in FailStatuses
    /\ ~StatusOk(statusCode)

C6_ExceptionsBecome500 ==
    /\ \A i \in Inv :
          cs[i].thrown # Undef =>
              /\ Finished(cs[i]) /\ cs[i].resp.statusCode = 500
              /\ cs[i].resp.error = cs[i].thrown
    /\ ms.thrown # Undef =>
          /\ Finished(ms) /\ ms.resp.statusCode = 500
          /\ ms.resp.message = ms.thrown
    /\ ins.thrown # Undef =>
          /\ Finished(ins) /\ ins.resp.statusCode = 500
          /\ ins.resp.error = ins.thrown

\* the {id, email} pairs of the Account fetches that succeeded, in order
RECURSIVE Joined(_)
Joined(fetched) ==
    IF fetched = <<>> THEN <<>>
    ELSE LET f == Last(fetched)
             rest == Joined(SubSeq(fetched, 1, Len(fetched) - 1))
         IN  IF StatusOk(f.status) THEN Append(rest, [id |-> f.id, email |-> f.email])
             ELSE rest

\* the list operation ended (with or without a response) after a Profile
\* query that gave a sequence of identifiers
ListEnded ==
    /\ ms.method = "GET" /\ ms.pc \in {"done", "crashed"}
    /\ ms.calls # <<>> /\ StatusOk(ms.calls[1].status)
    /\ ms.thrown # IterErr

\* C7: a list whose Profile query succeeded is answered 200 with the
\* identifiers of the query, in order, whose Account fetch succeeded, each
\* with that Account's email; a failed Account fetch only omits its entry.
C7_ListIsOrderedJoin ==
    ListEnded =>
        /\ Finished(ms) /\ ms.resp.statusCode = 200
        /\ [k \in DOMAIN ms.fetched |-> ms.fetched[k].id] = ms.sellers
        /\ ms.resp.list = Joined(ms.fetched)

\* The same, for the lists in which no fetch rejected: every Account fetch
\* came back with a status.
C7_ListIsOrderedJoinUnlessRejected ==
    (ListEnded /\ ms.thrown = Undef) =>
        /\ Finished(ms) /\ ms.resp.statusCode = 200
        /\ [k \in DOMAIN ms.fetched |-> ms.fetched[k].id] = ms.sellers
        /\ ms.resp.list = Joined(ms.fetched)
        /\ \A k \in DOMAIN ms.resp.list :
              accounts[ms.resp.list[k].id].email = ms.resp.list[k].email

CallOrders ==
    {<<>>, <<"create">>, <<"create", "lookup">>, <<"create", "upsert">>,
     <<"create", "lookup", "upsert">>}

\* C8: within one seller-creation invocation the calls are create, then
\* lookup, then upsert, each at most once; the lookup is issued exactly when
\* the create response is a 422 or carries no identifier; the upsert is keyed
\* by the identifier resolved for the email; a lookup that gives no identifier
\* ends in 422 without an upsert; a 200 follows a successful upsert and
\* carries the identifier the upsert used.
C8_CreateLookupUpsertOrder ==
    \A i \in Inv :
        LET r == cs[i]
            c == r.calls
        IN  /\ Ops(c) \in CallOrders
            /\ (c # <<>> /\ c[1].status # 0) =>
                  ((Issued(r, "lookup") \/ r.pc = "lookup")
                      <=> (c[1].status = 422 \/ r.createUid = NoId))
            /\ \A k \in DOMAIN c :
                  c[k].op = "upsert" =>
                      /\ c[k].id # NoId
                      /\ c[k].id \in AccountsOf(accounts, r.email)
                      /\ c[k].id = r.userId
            /\ (Finished(r) /\ c # <<>> /\ Last(c).op = "lookup" /\ r.thrown = Undef) =>
                  (r.userId = NoId /\ r.resp.statusCode = 422)
            /\ r.resp.statusCode = 422 => ~Issued(r, "upsert")
            /\ r.resp.statusCode = 200 =>
                  /\ c # <<>> /\ Last(c).op = "upsert" /\ StatusOk(Last(c).status)
                  /\ r.resp.userId = Last(c).id

\* The create came back 422, the lookup found the Account, the upsert
\* succeeded and the invocation returned 200.
C8_Witness ==
    \E i \in Inv :
        /\ Finished(cs[i]) /\ cs[i].resp.statusCode = 200
        /\ Ops(cs[i].calls) = <<"create", "lookup", "upsert">>
        /\ cs[i].calls[1].status = 422

\* the invocation created an Account and its upsert then failed
UpsertFailedAfterCreate(r) ==
    /\ Finished(r) /\ r.newId # NoId
    /\ r.calls # <<>> /\ Last(r.calls).op = "upsert" /\ ~StatusOk(Last(r.calls).status)

\* C9: when an invocation created an Account and its upsert failed, the
\* failed upsert is its last call (one upsert, no delete), the Account it
\* created still exists, it wrote no Profile record, and it ended with a
\* server-error response; the step in which the upsert fails changes neither
\* the Accounts nor the Profile records.
C9_NoCompensation ==
    /\ [](\A i \in Inv :
            UpsertFailedAfterCreate(cs[i]) =>
                /\ Ops(cs[i].calls) \in {<<"create", "upsert">>, <<"create", "lookup", "upsert">>}
                /\ accounts[cs[i].newId].email = cs[i].email
                /\ ~cs[i].wrote
                /\ cs[i].resp.statusCode >= 500 /\ cs[i].resp.statusCode <= 599)
    /\ [][\A i \in Inv :
            (cs[i].pc = "upsert" /\ UpsertFailedAfterCreate(cs'[i])) =>
                (accounts' = accounts /\ profiles' = profiles)]_vars

\* An invocation created an Account, the upsert came back 422, and no
\* Profile record exists for the Account.
C9_Witness ==
    \E i \in Inv :
        /\ UpsertFailedAfterCreate(cs[i])
        /\ Last(cs[i].calls).status = 422
        /\ profiles[cs[i].newId] = "none"
        /\ accounts[cs[i].newId] # NoAccount

\* C10: every fetch the script intercepted was answered with a response: the
\* cached one without touching the network when the request is cached, else
\* the network's, else the cached main document.
C10_EveryFetchAnswered ==
    \A k \in DOMAIN sw.log :
        LET f == sw.log[k]
        IN  /\ f.response # NoResponse
            /\ CachesMatch(caches, f.req) # NoResponse =>
                  (f.network = "none" /\ f.response = CachesMatch(caches, f.req))
            /\ (CachesMatch(caches, f.req) = NoResponse /\ f.network = "failed") =>
                  f.response = [url |-> FallbackUrl, source |-> "cache"]

\* The same without the conclusion that a response always exists: a cached
\* request is served from the cache with no network fetch; otherwise the
\* network is tried, and on failure the answer is whatever the cache holds
\* for the main document.
C10_CacheFirstThenNetwork ==
    \A k \in DOMAIN sw.log :
        LET f == sw.log[k]
        IN  /\ CachesMatch(caches, f.req) # NoResponse =>
                  (f.network = "none" /\ f.response = CachesMatch(caches, f.req))
            /\ CachesMatch(caches, f.req) = NoResponse =>
                  /\ f.network \in {"ok", "failed"}
                  /\ f.network = "ok" => f.response = [url |-> f.req, source |-> "network"]
                  /\ f.network = "failed" => f.response = CachesMatch(caches, FallbackUrl)

=============================================================================
